---- MODULE Spec2Model ----
(***************************************************************************)
(* Model of the calendar component: the date-grid builder, the event       *)
(* bucketing, the form <-> event mapping with its validation, the default  *)
(* fields of a new event, and the calendar view with its event modal,      *)
(* embedded as in the README.                                              *)
(*                                                                         *)
(* A JavaScript Date is modelled as a record [day, ms]: the local calendar *)
(* day, counted in days since 1970-01-01, and the milliseconds since local *)
(* midnight.  The local time zone has a constant UTC offset, so every      *)
(* local day has MsPerDay milliseconds.  The Invalid Date is the record    *)
(* InvalidDate.  Strings are sequences of one-character strings.           *)
(***************************************************************************)
EXTENDS Integers, Sequences, FiniteSets, TLC

VARIABLES
    op,         \* the operation applied last ("init" before any)
    refDate,    \* reference date handed to getCalendarGrid
    grid,       \* the month grid returned by getCalendarGrid
    events,     \* the embedder's event list, handed to the bucketing functions
    queryDate,  \* the date (or a date of the week) the events are asked for
    result,     \* the list the bucketing call returned
    editingEvent, \* the event handed to the form layer (the event being edited)
    formData,   \* the form's fields (EventFormData)
    errors,     \* the validation result (FormErrors)
    converted,  \* the event formDataToEvent returned
    now,        \* the clock: what new Date() returns
    selectedDate, \* the date the create modal was opened on (modalSelectedDate)
    modalOpen,  \* whether the event modal is open
    calls,      \* the embedder's callbacks called since the modal was opened
    view,       \* the calendar's view: "month" or "week"
    calendarSelectedDate, \* the calendar's selected date (useCalendar's selectedDate)
    history,    \* the navigation operations applied, each with the state it found
    weekColumns, \* the days of the week view's columns
    blocks,     \* the week view's event blocks, one sequence per column
    position,   \* what getTimeSlotPosition returned
    height      \* what getEventHeight returned

gridVars == <<refDate, grid>>
bucketVars == <<events, queryDate, result>>
formVars == <<editingEvent, formData, errors, converted>>
modalVars == <<now, selectedDate, modalOpen, calls>>
navVars == <<view, calendarSelectedDate, history>>
layoutVars == <<weekColumns, blocks, position, height>>
vars == <<op, refDate, grid, events, queryDate, result, editingEvent, formData,
         errors, converted, now, selectedDate, modalOpen, calls, view,
         calendarSelectedDate, history, weekColumns, blocks, position, height>>

(***************************************************************************)
(* Bounds of the model.                                                    *)
(***************************************************************************)
\* reference dates range over the years 2024 .. 2024 + YearSpan
YearSpan == 2

(***************************************************************************)
(* The Date object: calendar arithmetic of the proleptic Gregorian         *)
(* calendar, as the platform's Date and date-fns compute it.               *)
(***************************************************************************)
MsPerDay == 86400000
MsPerHour == 3600000
MsPerMinute == 60000

IsLeapYear(y) == (y % 4 = 0 /\ y % 100 # 0) \/ y % 400 = 0

DaysInMonth(y, m) ==
    IF m = 2 THEN (IF IsLeapYear(y) THEN 29 ELSE 28)
    ELSE IF m \in {4, 6, 9, 11} THEN 30 ELSE 31

\* number of leap years in 1 .. y-1
LeapsBefore(y) == ((y - 1) \div 4) - ((y - 1) \div 100) + ((y - 1) \div 400)

\* days from 1970-01-01 to y-01-01
DaysBeforeYear(y) == 365 * (y - 1970) + LeapsBefore(y) - LeapsBefore(1970)

RECURSIVE DaysBeforeMonth(_, _)
DaysBeforeMonth(y, m) ==
    IF m = 1 THEN 0 ELSE DaysBeforeMonth(y, m - 1) + DaysInMonth(y, m - 1)

\* day number of the calendar date y-m-d (d may run past the month's end,
\* as in new Date(y, m, d))
DayNumber(y, m, d) == DaysBeforeYear(y) + DaysBeforeMonth(y, m) + d - 1

\* the years a day number of the model can fall in
CalendarYears == (2024 - 1) .. (2024 + YearSpan + 2)

YearOf(n) ==
    CHOOSE y \in CalendarYears : DaysBeforeYear(y) <= n /\ n < DaysBeforeYear(y + 1)

MonthOf(n) ==
    LET y == YearOf(n)
        k == n - DaysBeforeYear(y)
    IN  CHOOSE m \in 1..12 :
            DaysBeforeMonth(y, m) <= k /\ k < DaysBeforeMonth(y, m) + DaysInMonth(y, m)

DayOfMonth(n) ==
    LET y == YearOf(n) IN n - DaysBeforeYear(y) - DaysBeforeMonth(y, MonthOf(n)) + 1

\* Date.prototype.getDay: 0 = Sunday; 1970-01-01 was a Thursday
getDay(n) == (n + 4) % 7

MkDate(n, t) == [day |-> n, ms |-> t]

InvalidDate == [day |-> 0, ms |-> -1]

IsValidDate(d) == d.ms >= 0

\* Date.prototype.getTime() + delta milliseconds
AddMs(d, delta) ==
    LET t == d.ms + delta
    IN  MkDate(d.day + (t \div MsPerDay), t % MsPerDay)

(***************************************************************************)
(* date-fns functions used by the grid builder.                            *)
(***************************************************************************)
startOfMonth(d) == MkDate(d.day - DayOfMonth(d.day) + 1, 0)

endOfMonth(d) ==
    MkDate(d.day - DayOfMonth(d.day) + DaysInMonth(YearOf(d.day), MonthOf(d.day)),
           MsPerDay - 1)

\* startOfWeek(d, { weekStartsOn })
startOfWeekOn(d, weekStartsOn) ==
    LET diff == (getDay(d.day) + 7 - weekStartsOn) % 7
    IN  MkDate(d.day - diff, 0)

\* endOfWeek(d, { weekStartsOn })
endOfWeekOn(d, weekStartsOn) ==
    LET diff == (6 + weekStartsOn - getDay(d.day)) % 7
    IN  MkDate(d.day + diff, MsPerDay - 1)

\* eachDayOfInterval({ start, end }): local midnight of every day from
\* start's day to end's day
eachDayOfInterval(start, end) ==
    [i \in 1 .. (end.day - start.day + 1) |-> MkDate(start.day + i - 1, 0)]

(***************************************************************************)
(* getCalendarGrid                                                         *)
(***************************************************************************)
GridCells == 42

\* while (days.length < 42) days.push(lastDay + 24h)
RECURSIVE PadGrid(_)
PadGrid(days) ==
    IF Len(days) < GridCells
    THEN PadGrid(Append(days, AddMs(days[Len(days)], 24 * 60 * 60 * 1000)))
    ELSE days

\* the grid without the padding loop
getCalendarGridUnpadded(date) ==
    LET monthStart == startOfMonth(date)
        monthEnd == endOfMonth(date)
        calendarStart == startOfWeekOn(monthStart, 0)
        calendarEnd == endOfWeekOn(monthEnd, 0)
        days == eachDayOfInterval(calendarStart, calendarEnd)
    IN  SubSeq(days, 1, IF Len(days) < GridCells THEN Len(days) ELSE GridCells)

\* the grid with the week starting on Monday
getCalendarGridMonday(date) ==
    LET monthStart == startOfMonth(date)
        monthEnd == endOfMonth(date)
        calendarStart == startOfWeekOn(monthStart, 1)
        calendarEnd == endOfWeekOn(monthEnd, 1)
        days == PadGrid(eachDayOfInterval(calendarStart, calendarEnd))
    IN  SubSeq(days, 1, GridCells)

getCalendarGrid(date) ==
    LET monthStart == startOfMonth(date)
        monthEnd == endOfMonth(date)
        calendarStart == startOfWeekOn(monthStart, 0)
        calendarEnd == endOfWeekOn(monthEnd, 0)
        days == PadGrid(eachDayOfInterval(calendarStart, calendarEnd))
    IN  SubSeq(days, 1, IF Len(days) < GridCells THEN Len(days) ELSE GridCells)

(***************************************************************************)
(* Values the variables of the other components keep while one component   *)
(* is exercised.                                                           *)
(***************************************************************************)
\* An optional field that is absent (undefined) holds Absent; an absent id
\* argument is NoId.
Absent == <<"undefined">>

NoId == "undefined"

NoEvent ==
    [id |-> NoId, title |-> <<>>, description |-> Absent,
     startDate |-> InvalidDate, endDate |-> InvalidDate,
     color |-> Absent, category |-> Absent]

EmptyForm ==
    [title |-> <<>>, description |-> <<>>, startDate |-> <<>>, startTime |-> <<>>,
     endDate |-> <<>>, endTime |-> <<>>, color |-> <<>>, category |-> <<>>]

\* the empty FormErrors object {}
NoErrors == <<>>

FormIdle ==
    /\ editingEvent = NoEvent
    /\ formData = EmptyForm
    /\ errors = NoErrors
    /\ converted = NoEvent

\* no date: null or undefined where a Date is expected
NoDate == [day |-> -1, ms |-> -1]

ModalIdle ==
    /\ now = NoDate
    /\ selectedDate = NoDate
    /\ modalOpen = FALSE
    /\ calls = <<>>

\* a number that was not computed
NoNumber == [num |-> 0, den |-> 0]

NavIdle ==
    /\ view = "month"
    /\ calendarSelectedDate = NoDate
    /\ history = <<>>

LayoutIdle ==
    /\ weekColumns = <<>>
    /\ blocks = <<>>
    /\ position = NoNumber
    /\ height = NoNumber

GridIdle == refDate = MkDate(DayNumber(2024, 1, 1), 0) /\ grid = <<>>

BucketIdle ==
    /\ events = <<>>
    /\ queryDate = MkDate(DayNumber(2024, 1, 1), 0)
    /\ result = <<>>

(***************************************************************************)
(* Specification of the grid builder: a reference date is drawn and the    *)
(* month view computes its grid.                                           *)
(***************************************************************************)
RefTimes == {0, 45296789, MsPerDay - 1}

RefDates ==
    { MkDate(n, t) : n \in DayNumber(2024, 1, 1) .. DayNumber(2024 + YearSpan, 12, 31),
                     t \in RefTimes }

InitGrid ==
    /\ op = "init"
    /\ refDate \in RefDates
    /\ grid = <<>>
    /\ BucketIdle
    /\ FormIdle
    /\ ModalIdle
    /\ NavIdle
    /\ LayoutIdle

\* MonthView: calendarDays = getCalendarGrid(currentDate)
MonthViewGrid ==
    /\ op = "init"
    /\ grid' = getCalendarGrid(refDate)
    /\ op' = "getCalendarGrid"
    /\ UNCHANGED <<navVars, layoutVars, modalVars, refDate, bucketVars, formVars>>

NextGrid == MonthViewGrid

SpecGrid == InitGrid /\ [][NextGrid]_vars

(***************************************************************************)
(* C1: for every reference date d, getCalendarGrid(d) has exactly 42       *)
(* dates, each one calendar day after the previous one, and every day of   *)
(* d's calendar month appears in it, as one contiguous run.                *)
(***************************************************************************)
MonthRunAt(g, d, k) ==
    \A j \in 1 .. DaysInMonth(YearOf(d.day), MonthOf(d.day)) :
        /\ k + j - 1 <= Len(g)
        /\ g[k + j - 1].day = DayNumber(YearOf(d.day), MonthOf(d.day), j)

FirstOfMonth(d) == d.day - DayOfMonth(d.day) + 1

DateLT(a, b) ==
    /\ IsValidDate(a) /\ IsValidDate(b)
    /\ (a.day < b.day \/ (a.day = b.day /\ a.ms < b.ms))

DateLE(a, b) ==
    /\ IsValidDate(a) /\ IsValidDate(b)
    /\ (a.day < b.day \/ (a.day = b.day /\ a.ms <= b.ms))

(***************************************************************************)
(* date-fns functions used by the bucketing.                               *)
(***************************************************************************)
startOfDay(d) == MkDate(d.day, 0)

endOfDay(d) == MkDate(d.day, MsPerDay - 1)

isSameDay(a, b) == startOfDay(a) = startOfDay(b)

\* isWithinInterval(date, { start, end }) of date-fns 3 and later (the
\* README names Storybook 8, which is younger than date-fns 3): the two ends
\* of the interval are sorted before date is compared with them
isWithinInterval(date, start, end) ==
    LET lo == IF DateLE(start, end) THEN start ELSE end
        hi == IF DateLE(start, end) THEN end ELSE start
    IN  DateLE(lo, date) /\ DateLE(date, hi)

\* getWeekDays with weeks that start on Monday
getWeekDaysMonday(date) ==
    eachDayOfInterval(startOfWeekOn(date, 1), endOfWeekOn(date, 1))

\* getWeekDays: the days from startOfWeek(date) to endOfWeek(date)
getWeekDays(date) ==
    LET weekStart == startOfWeekOn(date, 0)
        weekEnd == endOfWeekOn(date, 0)
    IN  eachDayOfInterval(weekStart, weekEnd)

(***************************************************************************)
(* The stable Array.prototype.sort with the comparator                     *)
(* (a, b) => a.startDate.getTime() - b.startDate.getTime().                *)
(* Array.prototype.filter is SelectSeq.                                    *)
(***************************************************************************)
\* insert e behind every element that does not start after it
RECURSIVE InsertByStart(_, _)
InsertByStart(sorted, e) ==
    IF sorted = <<>> THEN <<e>>
    ELSE IF DateLT(e.startDate, Head(sorted).startDate) THEN <<e>> \o sorted
    ELSE <<Head(sorted)>> \o InsertByStart(Tail(sorted), e)

\* a sort that puts an element before the elements of equal start
RECURSIVE InsertByStartUnstable(_, _)
InsertByStartUnstable(sorted, e) ==
    IF sorted = <<>> THEN <<e>>
    ELSE IF DateLE(e.startDate, Head(sorted).startDate) THEN <<e>> \o sorted
    ELSE <<Head(sorted)>> \o InsertByStartUnstable(Tail(sorted), e)

RECURSIVE SortByStartUnstable(_)
SortByStartUnstable(seq) ==
    IF seq = <<>> THEN <<>>
    ELSE InsertByStartUnstable(SortByStartUnstable(SubSeq(seq, 1, Len(seq) - 1)),
                               seq[Len(seq)])

RECURSIVE SortByStart(_)
SortByStart(seq) ==
    IF seq = <<>> THEN <<>>
    ELSE InsertByStart(SortByStart(SubSeq(seq, 1, Len(seq) - 1)), seq[Len(seq)])

(***************************************************************************)
(* getEventsForDate                                                        *)
(***************************************************************************)
\* the filter callback of getEventsForDate
OccursOnDate(event, date) ==
    LET eventStart == startOfDay(event.startDate)
        eventEnd == endOfDay(event.endDate)
        checkDate == startOfDay(date)
    IN  \/ isWithinInterval(checkDate, eventStart, eventEnd)
        \/ isSameDay(event.startDate, date)
        \/ isSameDay(event.endDate, date)

\* the callback without the interval test
OccursOnDateEndsOnly(event, date) ==
    \/ isSameDay(event.startDate, date)
    \/ isSameDay(event.endDate, date)

\* getEventsForDate that drops the events spanning the date
getEventsForDateEndsOnly(evts, date) ==
    LET Keep(e) == OccursOnDateEndsOnly(e, date)
    IN  SortByStart(SelectSeq(evts, Keep))

\* getEventsForDate that tests the date against [start, end] as given,
\* without widening the interval to whole days
getEventsForDateRawInterval(evts, date) ==
    LET Keep(e) == isWithinInterval(startOfDay(date), e.startDate, e.endDate)
    IN  SortByStart(SelectSeq(evts, Keep))

getEventsForDate(evts, date) ==
    LET Keep(e) == OccursOnDate(e, date)
    IN  SortByStart(SelectSeq(evts, Keep))

(***************************************************************************)
(* getEventsForWeek                                                        *)
(***************************************************************************)
\* the filter callback of getEventsForWeek
OccursInWeek(event, weekStart, weekEnd) ==
    \/ isWithinInterval(event.startDate, startOfDay(weekStart), endOfDay(weekEnd))
    \/ isWithinInterval(event.endDate, startOfDay(weekStart), endOfDay(weekEnd))

getEventsForWeek(evts, weekDays) ==
    \* if (!weekStart || !weekEnd) return []
    IF weekDays = <<>> THEN <<>>
    ELSE
        LET weekStart == weekDays[1]
            weekEnd == weekDays[Len(weekDays)]
            Keep(e) == OccursInWeek(e, weekStart, weekEnd)
        IN  SortByStart(SelectSeq(evts, Keep))

(***************************************************************************)
(* Specification of the bucketing: an event list and a date are drawn, and *)
(* the month or week view asks for the events of the date or of its week.  *)
(***************************************************************************)
\* number of events in a list
MaxEvents == 2

\* the Sunday that starts the week 2024-02-25 .. 2024-03-02
WeekSunday == DayNumber(2024, 2, 25)

\* the instants around the week's two ends: the Saturday before it, its
\* Sunday, the end of its Saturday, the start of the Sunday after it
BucketInstants ==
    { MkDate(WeekSunday - 1, 0), MkDate(WeekSunday - 1, MsPerDay - 1),
      MkDate(WeekSunday, 0), MkDate(WeekSunday, MsPerDay - 1),
      MkDate(WeekSunday + 6, MsPerDay - 1), MkDate(WeekSunday + 7, 0) }

\* the dates asked for: a day before, in and after the week, at several times
QueryDates ==
    { MkDate(WeekSunday - 1, MsPerDay - 1), MkDate(WeekSunday, 0),
      MkDate(WeekSunday + 6, 9 * MsPerHour), MkDate(WeekSunday + 7, 0) }

EventIds == <<"evt-1", "evt-2", "evt-3", "evt-4">>

\* the event at position i of a list, from s to e (also with e not after s)
BucketEvent(i, s, e) ==
    [id |-> EventIds[i], title |-> <<"a">>, description |-> Absent,
     startDate |-> s, endDate |-> e, color |-> Absent, category |-> Absent]

\* every (start, end) pair, also those with end not after start
BucketPairs == BucketInstants \X BucketInstants

InitBucket ==
    /\ op = "init"
    /\ GridIdle
    /\ FormIdle
    /\ ModalIdle
    /\ NavIdle
    /\ LayoutIdle
    /\ \E n \in 0 .. MaxEvents :
           \E p \in [1 .. n -> BucketPairs] :
               events = [i \in 1 .. n |-> BucketEvent(i, p[i][1], p[i][2])]
    /\ queryDate \in QueryDates
    /\ result = <<>>

\* the array handed in, after events.sort(...).filter(...): sort orders the
\* array it is called on
InputAfterSortFilter(evts) == SortByStart(evts)

\* the array handed in, after events.filter(...).sort(...): filter returns a
\* new array and sort orders that new array, so the array handed in keeps its
\* elements and their order
InputAfterFilterSort(evts) == evts

\* MonthView, WeekView: getEventsForDay(date)
EventsForDate ==
    /\ op = "init"
    /\ result' = getEventsForDate(events, queryDate)
    /\ events' = InputAfterFilterSort(events)
    /\ op' = "getEventsForDate"
    /\ UNCHANGED <<navVars, layoutVars, modalVars, gridVars, queryDate, formVars>>

\* getEventsForWeek(events, getWeekDays(date))
EventsForWeek ==
    /\ op = "init"
    /\ result' = getEventsForWeek(events, getWeekDays(queryDate))
    /\ events' = InputAfterFilterSort(events)
    /\ op' = "getEventsForWeek"
    /\ UNCHANGED <<navVars, layoutVars, modalVars, gridVars, queryDate, formVars>>

NextBucket == EventsForDate \/ EventsForWeek

SpecBucket == InitBucket /\ [][NextBucket]_vars

InList(e, list) == \E i \in 1 .. Len(list) : list[i] = e

\* e.start <= endOfDay(d) and e.end >= startOfDay(d)
TouchesDate(e, d) ==
    DateLE(e.startDate, endOfDay(d)) /\ DateLE(startOfDay(d), e.endDate)

(***************************************************************************)
(* C3 as claimed: for every event list, also one holding events whose end  *)
(* is not after their start, getEventsForDate(events, d) holds an event e  *)
(* of the list exactly when e.start <= endOfDay(d) and                     *)
(* e.end >= startOfDay(d).                                                 *)
(***************************************************************************)
DateBucketIsIntersectionAlways ==
    op = "getEventsForDate" =>
        \A i \in 1 .. Len(events) :
            InList(events[i], result) <=> TouchesDate(events[i], queryDate)

(***************************************************************************)
(* C3 amended: getEventsForDate(events, d) holds only events of the list,  *)
(* and an event e of the list that does not end on a calendar day before   *)
(* the day it starts is in it exactly when e.start <= endOfDay(d) and      *)
(* e.end >= startOfDay(d); this includes the events whose end is not after *)
(* their start but on the same day.                                        *)
(***************************************************************************)
DateBucketIsIntersection ==
    op = "getEventsForDate" =>
        /\ \A j \in 1 .. Len(result) : InList(result[j], events)
        /\ \A i \in 1 .. Len(events) :
               events[i].startDate.day <= events[i].endDate.day =>
                   (InList(events[i], result) <=> TouchesDate(events[i], queryDate))

\* a list with an event that ends before it starts, on the same day, and an
\* event of the day before: the first is returned, the second is not
DateBucketWitness ==
    /\ op = "getEventsForDate"
    /\ Len(events) = 2
    /\ DateLT(events[1].endDate, events[1].startDate)
    /\ isSameDay(events[1].startDate, events[1].endDate)
    /\ isSameDay(events[1].startDate, queryDate)
    /\ events[2].endDate.day < queryDate.day
    /\ events[2].startDate.day <= events[2].endDate.day
    /\ result = <<events[1]>>

(***************************************************************************)
(* C4: an event that starts on calendar day a and ends on a later calendar *)
(* day b is returned by getEventsForDate for every date d with             *)
(* a <= d <= b and for no date outside that span.                          *)
(***************************************************************************)
MultiDayEventOnEveryDay ==
    op = "getEventsForDate" =>
        \A i \in 1 .. Len(events) :
            events[i].startDate.day < events[i].endDate.day =>
                (InList(events[i], result) <=>
                    /\ events[i].startDate.day <= queryDate.day
                    /\ queryDate.day <= events[i].endDate.day)

\* an event from the Saturday before the week to the Sunday after it is
\* returned for a day strictly in between
MultiDayWitness ==
    /\ op = "getEventsForDate"
    /\ Len(events) >= 1
    /\ events[1].startDate.day < queryDate.day
    /\ queryDate.day < events[1].endDate.day
    /\ InList(events[1], result)

(***************************************************************************)
(* C5 as claimed, stated for the events that end after they start:         *)
(* getEventsForWeek(events, weekDays) returns such an event exactly when   *)
(* its [start, end] interval intersects the span from the start of the     *)
(* first day to the end of the last day of the week, so also an event that *)
(* starts before the week and ends after it.                               *)
(***************************************************************************)
TouchesWeek(e, weekDays) ==
    /\ DateLE(e.startDate, endOfDay(weekDays[Len(weekDays)]))
    /\ DateLE(startOfDay(weekDays[1]), e.endDate)

WeekBucketIsIntersection ==
    op = "getEventsForWeek" =>
        \A i \in 1 .. Len(events) :
            DateLT(events[i].startDate, events[i].endDate) =>
                (InList(events[i], result) <=>
                    TouchesWeek(events[i], getWeekDays(queryDate)))

(***************************************************************************)
(* C6: the results of getEventsForDate and getEventsForWeek are ordered    *)
(* ascending by start instant, and events with equal start instants keep   *)
(* the relative order they had in the input list.                          *)
(***************************************************************************)
\* position of the event with the given id in a list of distinct ids
IndexOf(list, id) == CHOOSE i \in 1 .. Len(list) : list[i].id = id

ResultSortedStable ==
    op \in {"getEventsForDate", "getEventsForWeek"} =>
        \A i, j \in 1 .. Len(result) :
            i < j =>
                /\ DateLE(result[i].startDate, result[j].startDate)
                /\ (result[i].startDate = result[j].startDate =>
                        IndexOf(events, result[i].id) < IndexOf(events, result[j].id))

\* two events with the same start, both returned, in the order of the list
ResultSortedWitness ==
    /\ op = "getEventsForWeek"
    /\ Len(events) = 2
    /\ events[1].startDate = events[2].startDate
    /\ events[1].endDate # events[2].endDate
    /\ result = events

(***************************************************************************)
(* Strings: String.prototype.trim, split(':'), Number, padStart.           *)
(***************************************************************************)
Digits == <<"0", "1", "2", "3", "4", "5", "6", "7", "8", "9">>

IsDigit(c) == \E k \in 1 .. 10 : Digits[k] = c

DigitValue(c) == (CHOOSE k \in 1 .. 10 : Digits[k] = c) - 1

\* the number NaN
NaN == -1

RECURSIVE DigitsValue(_)
DigitsValue(str) ==
    IF str = <<>> THEN 0
    ELSE 10 * DigitsValue(SubSeq(str, 1, Len(str) - 1)) + DigitValue(str[Len(str)])

\* Number(str) of a string of decimal digits; Number('') is 0
NumberOf(str) ==
    IF \A i \in 1 .. Len(str) : IsDigit(str[i]) THEN DigitsValue(str) ELSE NaN

\* String(n) of a natural number
RECURSIVE ToDigits(_)
ToDigits(n) ==
    IF n < 10 THEN <<Digits[n + 1]>>
    ELSE ToDigits(n \div 10) \o <<Digits[(n % 10) + 1]>>

\* str.padStart(width, '0')
RECURSIVE PadStart(_, _)
PadStart(str, width) ==
    IF Len(str) >= width THEN str ELSE PadStart(<<"0">> \o str, width)

RECURSIVE TrimStart(_)
TrimStart(str) ==
    IF str # <<>> /\ Head(str) = " " THEN TrimStart(Tail(str)) ELSE str

RECURSIVE TrimEnd(_)
TrimEnd(str) ==
    IF str # <<>> /\ str[Len(str)] = " "
    THEN TrimEnd(SubSeq(str, 1, Len(str) - 1)) ELSE str

Trim(str) == TrimEnd(TrimStart(str))

\* str.split(':')
RECURSIVE SplitColon(_)
SplitColon(str) ==
    IF \A i \in 1 .. Len(str) : str[i] # ":" THEN <<str>>
    ELSE LET k == CHOOSE i \in 1 .. Len(str) :
                      str[i] = ":" /\ \A j \in 1 .. (i - 1) : str[j] # ":"
         IN  <<SubSeq(str, 1, k - 1)>> \o SplitColon(SubSeq(str, k + 1, Len(str)))

(***************************************************************************)
(* date-fns format, parseISO, setHours, setMinutes, getHours, getMinutes.  *)
(***************************************************************************)
getHours(d) == d.ms \div MsPerHour

getMinutes(d) == (d.ms % MsPerHour) \div MsPerMinute

\* setHours(date, hours): Date.prototype.setHours, which carries hours of
\* 24 and more into the following days
setHours(d, hours) ==
    IF ~IsValidDate(d) \/ hours = NaN THEN InvalidDate
    ELSE AddMs(MkDate(d.day, d.ms % MsPerHour), hours * MsPerHour)

\* setMinutes(date, minutes)
setMinutes(d, minutes) ==
    IF ~IsValidDate(d) \/ minutes = NaN THEN InvalidDate
    ELSE AddMs(MkDate(d.day, d.ms - getMinutes(d) * MsPerMinute), minutes * MsPerMinute)

\* parseISO of a date input's value: 'yyyy-MM-dd' gives the local midnight
\* of that day, every other string of the model the Invalid Date
parseISO(str) ==
    IF /\ Len(str) = 10
       /\ str[5] = "-" /\ str[8] = "-"
       /\ \A i \in {1, 2, 3, 4, 6, 7, 9, 10} : IsDigit(str[i])
    THEN LET y == DigitsValue(SubSeq(str, 1, 4))
             m == DigitsValue(SubSeq(str, 6, 7))
             dd == DigitsValue(SubSeq(str, 9, 10))
         IN  IF m \in 1 .. 12 /\ dd >= 1 /\ dd <= DaysInMonth(y, m)
             THEN MkDate(DayNumber(y, m, dd), 0)
             ELSE InvalidDate
    ELSE InvalidDate

\* format(date, 'yyyy-MM-dd')
formatDateForInput(date) ==
    PadStart(ToDigits(YearOf(date.day)), 4) \o <<"-">>
        \o PadStart(ToDigits(MonthOf(date.day)), 2) \o <<"-">>
        \o PadStart(ToDigits(DayOfMonth(date.day)), 2)

\* format(date, 'hh:mm'): the hour on the 12-hour clock
formatTimeForInput12(date) ==
    PadStart(ToDigits(IF getHours(date) % 12 = 0 THEN 12 ELSE getHours(date) % 12), 2)
        \o <<":">> \o PadStart(ToDigits(getMinutes(date)), 2)

\* format(date, 'HH:mm')
formatTimeForInput(date) ==
    PadStart(ToDigits(getHours(date)), 2) \o <<":">>
        \o PadStart(ToDigits(getMinutes(date)), 2)

parseDateTimeInputs(dateString, timeString) ==
    LET date == parseISO(dateString)
        parts == SplitColon(timeString)
        hours == NumberOf(parts[1])
        minutes == IF Len(parts) >= 2 THEN NumberOf(parts[2]) ELSE 0
    IN  setMinutes(setHours(date, hours), minutes)

(***************************************************************************)
(* The palette and the categories: opaque tokens, one-element strings.     *)
(***************************************************************************)
EVENT_COLORS ==
    << <<"#3b82f6">>, <<"#10b981">>, <<"#f59e0b">>, <<"#8b5cf6">>,
       <<"#ec4899">>, <<"#ef4444">>, <<"#06b6d4">>, <<"#f97316">> >>

EVENT_CATEGORIES ==
    << <<"Meeting">>, <<"Work">>, <<"Personal">>, <<"Design">>,
       <<"Development">>, <<"Other">> >>

(***************************************************************************)
(* validateEventForm                                                       *)
(***************************************************************************)
MaxTitleLength == 100
MaxDescriptionLength == 500

\* the title check without trim()
TitleErrorNoTrim(data) ==
    IF data.title = <<>> THEN "title" :> "Title is required"
    ELSE IF Len(data.title) > MaxTitleLength
    THEN "title" :> "Title must be 100 characters or less"
    ELSE NoErrors

\* the title check that rejects a title of exactly 100 characters
TitleErrorOffByOne(data) ==
    IF Trim(data.title) = <<>> THEN "title" :> "Title is required"
    ELSE IF Len(data.title) >= MaxTitleLength
    THEN "title" :> "Title must be 100 characters or less"
    ELSE NoErrors

TitleError(data) ==
    IF Trim(data.title) = <<>> THEN "title" :> "Title is required"
    ELSE IF Len(data.title) > MaxTitleLength
    THEN "title" :> "Title must be 100 characters or less"
    ELSE NoErrors

DescriptionError(data) ==
    IF data.description # <<>> /\ Len(data.description) > MaxDescriptionLength
    THEN "description" :> "Description must be 500 characters or less"
    ELSE NoErrors

\* the required checks as an else-if chain: only the first empty field is
\* reported
RequiredErrorsFirstOnly(data) ==
    IF data.startDate = <<>> THEN "startDate" :> "Start date is required"
    ELSE IF data.startTime = <<>> THEN "startTime" :> "Start time is required"
    ELSE IF data.endDate = <<>> THEN "endDate" :> "End date is required"
    ELSE IF data.endTime = <<>> THEN "endTime" :> "End time is required"
    ELSE NoErrors

RequiredErrors(data) ==
    (IF data.startDate = <<>> THEN "startDate" :> "Start date is required" ELSE NoErrors)
    @@ (IF data.startTime = <<>> THEN "startTime" :> "Start time is required" ELSE NoErrors)
    @@ (IF data.endDate = <<>> THEN "endDate" :> "End date is required" ELSE NoErrors)
    @@ (IF data.endTime = <<>> THEN "endTime" :> "End time is required" ELSE NoErrors)

AllDateTimePresent(data) ==
    /\ data.startDate # <<>> /\ data.startTime # <<>>
    /\ data.endDate # <<>> /\ data.endTime # <<>>

\* the end-after-start check with end < start in place of end <= start
EndAfterStartErrorStrict(data) ==
    IF AllDateTimePresent(data)
    THEN LET start == parseDateTimeInputs(data.startDate, data.startTime)
             end == parseDateTimeInputs(data.endDate, data.endTime)
         IN  IF DateLT(end, start) THEN "endDate" :> "End must be after start"
             ELSE NoErrors
    ELSE NoErrors

EndAfterStartError(data) ==
    IF AllDateTimePresent(data)
    THEN LET start == parseDateTimeInputs(data.startDate, data.startTime)
             end == parseDateTimeInputs(data.endDate, data.endTime)
         IN  IF DateLE(end, start) THEN "endDate" :> "End must be after start"
             ELSE NoErrors
    ELSE NoErrors

\* the later assignment to errors.endDate wins
validateEventForm(data) ==
    EndAfterStartError(data) @@ RequiredErrors(data) @@ DescriptionError(data)
        @@ TitleError(data)

(***************************************************************************)
(* formDataToEvent, eventToFormData                                        *)
(***************************************************************************)
\* formDataToEvent that generates an id even when it is given one
formDataToEventNewId(data, existingId, freshId) ==
    [id |-> freshId,
     title |-> Trim(data.title),
     description |-> IF Trim(data.description) # <<>>
                     THEN Trim(data.description) ELSE Absent,
     startDate |-> parseDateTimeInputs(data.startDate, data.startTime),
     endDate |-> parseDateTimeInputs(data.endDate, data.endTime),
     color |-> IF data.color # <<>> THEN data.color ELSE EVENT_COLORS[1],
     category |-> IF data.category # <<>> THEN data.category ELSE Absent]

\* formDataToEvent without trim(): only the empty description becomes absent
formDataToEventNoTrim(data, existingId, freshId) ==
    [id |-> IF existingId # NoId THEN existingId ELSE freshId,
     title |-> data.title,
     description |-> IF data.description # <<>> THEN data.description ELSE Absent,
     startDate |-> parseDateTimeInputs(data.startDate, data.startTime),
     endDate |-> parseDateTimeInputs(data.endDate, data.endTime),
     color |-> IF data.color # <<>> THEN data.color ELSE EVENT_COLORS[1],
     category |-> IF data.category # <<>> THEN data.category ELSE Absent]

\* freshId is what generateEventId() returns when it is called
formDataToEvent(data, existingId, freshId) ==
    [id |-> IF existingId # NoId THEN existingId ELSE freshId,
     title |-> Trim(data.title),
     description |-> IF Trim(data.description) # <<>>
                     THEN Trim(data.description) ELSE Absent,
     startDate |-> parseDateTimeInputs(data.startDate, data.startTime),
     endDate |-> parseDateTimeInputs(data.endDate, data.endTime),
     color |-> IF data.color # <<>> THEN data.color ELSE EVENT_COLORS[1],
     category |-> IF data.category # <<>> THEN data.category ELSE Absent]

eventToFormData(e) ==
    [title |-> e.title,
     description |-> IF e.description # Absent THEN e.description ELSE <<>>,
     startDate |-> formatDateForInput(e.startDate),
     startTime |-> formatTimeForInput(e.startDate),
     endDate |-> formatDateForInput(e.endDate),
     endTime |-> formatTimeForInput(e.endDate),
     color |-> IF e.color # Absent THEN e.color ELSE EVENT_COLORS[1],
     category |-> IF e.category # Absent THEN e.category ELSE <<>>]

(***************************************************************************)
(* Specification of the form layer: either an event is drawn, converted to *)
(* fields and back (opening the modal on it and saving), or fields are     *)
(* drawn, validated and converted.                                         *)
(***************************************************************************)
\* a string of n copies of the character c
Repeat(c, n) == [i \in 1 .. n |-> c]

SampleDays == {DayNumber(2024, 2, 29), DayNumber(2024, 12, 31)}

\* 00:00, 09:05, 23:59, and 09:05:30.500
SampleTimes ==
    {0, 9 * MsPerHour + 5 * MsPerMinute, 23 * MsPerHour + 59 * MsPerMinute,
     9 * MsPerHour + 5 * MsPerMinute + 30500}

SampleInstants == { MkDate(n, t) : n \in SampleDays, t \in SampleTimes }

EventTitles == { <<"a">>, <<" ", "a">>, <<"a", " ", "b">> }

EventDescriptions == { Absent, <<>>, <<"d">>, <<"d", " ">> }

EventColors == { Absent, <<>>, EVENT_COLORS[1], EVENT_COLORS[2] }

EventCategories == { Absent, <<>>, EVENT_CATEGORIES[2] }

FormTitles ==
    { <<>>, <<" ">>, <<"a">>, <<" ", "a", " ">>,
      Repeat("a", MaxTitleLength), Repeat("a", MaxTitleLength + 1) }

FormDescriptions ==
    { <<>>, <<" ">>, <<" ", "d", " ">>,
      Repeat("d", MaxDescriptionLength), Repeat("d", MaxDescriptionLength + 1) }

\* values of the date inputs: empty, or a date; the input has no max, so
\* a year of five digits can be entered (12345-01-01)
FormDates ==
    { <<>>, formatDateForInput(MkDate(DayNumber(2024, 3, 10), 0)),
      formatDateForInput(MkDate(DayNumber(2024, 3, 11), 0)),
      <<"1", "2", "3", "4", "5", "-", "0", "1", "-", "0", "1">> }

\* values of the time inputs: empty, or a time; "24:00" is what
\* getDefaultFormData writes in the hour after 23:00
FormTimes ==
    { <<>>, <<"0", "8", ":", "0", "0">>, <<"0", "9", ":", "0", "0">>,
      <<"2", "4", ":", "0", "0">> }

FormColors == { <<>>, EVENT_COLORS[2] }

FormCategories == { <<>>, EVENT_CATEGORIES[2] }

FreshIds == {"evt-new-1", "evt-new-2"}

InitForm ==
    /\ op = "init"
    /\ GridIdle
    /\ BucketIdle
    /\ ModalIdle
    /\ NavIdle
    /\ LayoutIdle
    /\ errors = NoErrors
    /\ converted = NoEvent
    /\ \/ /\ formData = EmptyForm
          /\ \E t \in EventTitles, ds \in EventDescriptions, c \in EventColors,
                k \in EventCategories, s \in SampleInstants, e \in SampleInstants :
                 editingEvent =
                     [id |-> EventIds[1], title |-> t, description |-> ds,
                      startDate |-> s, endDate |-> e, color |-> c, category |-> k]
       \/ /\ editingEvent = NoEvent
          /\ formData \in
                 [title : FormTitles, description : FormDescriptions,
                  startDate : FormDates, startTime : FormTimes,
                  endDate : FormDates, endTime : FormTimes,
                  color : FormColors, category : FormCategories]

\* EventModal: setFormData(eventToFormData(event))
ToFields ==
    /\ op = "init"
    /\ editingEvent # NoEvent
    /\ formData' = eventToFormData(editingEvent)
    /\ op' = "eventToFormData"
    /\ UNCHANGED <<navVars, layoutVars, modalVars, gridVars, bucketVars, editingEvent, errors, converted>>

\* EventModal.handleSubmit: formDataToEvent(formData, event?.id)
FromFields ==
    /\ \/ op = "init" /\ editingEvent = NoEvent
       \/ op = "eventToFormData"
    /\ \E freshId \in FreshIds :
           converted' = formDataToEvent(formData, editingEvent.id, freshId)
    /\ op' = IF op = "eventToFormData" THEN "roundTrip" ELSE "formDataToEvent"
    /\ UNCHANGED <<navVars, layoutVars, modalVars, gridVars, bucketVars, editingEvent, formData, errors>>

\* EventModal.handleSubmit: validateEventForm(formData)
Validate ==
    /\ op = "init"
    /\ editingEvent = NoEvent
    /\ errors' = validateEventForm(formData)
    /\ op' = "validateEventForm"
    /\ UNCHANGED <<navVars, layoutVars, modalVars, gridVars, bucketVars, editingEvent, formData, converted>>

\* EventModal.handleSubmit: the event handed to onSave, NoEvent when the
\* validation errors make it return early
SubmittedEvent(data, existingId, freshId) ==
    IF DOMAIN validateEventForm(data) # {} THEN NoEvent
    ELSE formDataToEvent(data, existingId, freshId)

\* EventModal.handleSubmit on the fields as they are
SubmitFields ==
    /\ \/ op = "init" /\ editingEvent = NoEvent
       \/ op = "eventToFormData"
    /\ errors' = IF DOMAIN validateEventForm(formData) # {}
                 THEN validateEventForm(formData) ELSE errors
    /\ \E freshId \in FreshIds :
           converted' = SubmittedEvent(formData, editingEvent.id, freshId)
    /\ op' = "handleSubmit"
    /\ UNCHANGED <<navVars, layoutVars, modalVars, gridVars, bucketVars, editingEvent, formData>>

NextForm == ToFields \/ FromFields \/ Validate \/ SubmitFields

SpecForm == InitForm /\ [][NextForm]_vars

(***************************************************************************)
(* C7 as claimed: for every valid event e (non-empty title, end after      *)
(* start, minute-granular start and end; description, color and category   *)
(* each present or absent), formDataToEvent(eventToFormData(e), e.id)      *)
(* equals e field for field.                                               *)
(***************************************************************************)
ValidEvent(e) ==
    /\ e.title # <<>>
    /\ DateLT(e.startDate, e.endDate)
    /\ e.startDate.ms % MsPerMinute = 0
    /\ e.endDate.ms % MsPerMinute = 0

RoundTripAlways ==
    (op = "roundTrip" /\ ValidEvent(editingEvent)) => converted = editingEvent

(***************************************************************************)
(* C7 amended: for every valid event e (non-empty title, end after start,  *)
(* minute-granular start and end) whose title and description have no      *)
(* leading or trailing whitespace, whose description and category are each *)
(* absent or a non-empty string, and whose color is present and non-empty, *)
(* formDataToEvent(eventToFormData(e), e.id) equals e field for field.     *)
(***************************************************************************)
Normalised(e) ==
    /\ e.title = Trim(e.title)
    /\ e.description = Absent \/ (e.description # <<>> /\ e.description = Trim(e.description))
    /\ e.color # Absent /\ e.color # <<>>
    /\ e.category = Absent \/ e.category # <<>>

RoundTripNormalised ==
    (op = "roundTrip" /\ ValidEvent(editingEvent) /\ Normalised(editingEvent))
        => converted = editingEvent

\* an event from 2024-02-29 23:59 to 2024-12-31 09:05 with a description and
\* no category comes back unchanged
RoundTripWitness ==
    /\ op = "roundTrip"
    /\ ValidEvent(editingEvent) /\ Normalised(editingEvent)
    /\ editingEvent.startDate = MkDate(DayNumber(2024, 2, 29), 23 * MsPerHour + 59 * MsPerMinute)
    /\ editingEvent.description = <<"d">>
    /\ editingEvent.category = Absent
    /\ formData.startDate = <<"2", "0", "2", "4", "-", "0", "2", "-", "2", "9">>
    /\ formData.startTime = <<"2", "3", ":", "5", "9">>
    /\ converted = editingEvent

(***************************************************************************)
(* C8: validateEventForm on fields whose title is empty or only whitespace *)
(* always includes a title error, whatever the other fields hold.          *)
(***************************************************************************)
EmptyTitleHasError ==
    (op = "validateEventForm" /\ Trim(formData.title) = <<>>)
        => "title" \in DOMAIN errors

\* a whitespace title with all other fields valid: the title error is the
\* only one
EmptyTitleWitness ==
    /\ op = "validateEventForm"
    /\ formData.title = <<" ">>
    /\ DOMAIN errors = {"title"}
    /\ errors["title"] = "Title is required"

(***************************************************************************)
(* C9: whenever all four date/time fields are present and the combined End *)
(* instant is earlier than or equal to the combined Start instant,          *)
(* validateEventForm includes an error on endDate, whatever the title and  *)
(* the description are.                                                    *)
(***************************************************************************)
FormStart(data) == parseDateTimeInputs(data.startDate, data.startTime)

FormEnd(data) == parseDateTimeInputs(data.endDate, data.endTime)

EndNotAfterStartHasError ==
    (/\ op = "validateEventForm"
     /\ AllDateTimePresent(formData)
     /\ DateLE(FormEnd(formData), FormStart(formData)))
        => "endDate" \in DOMAIN errors

\* start 2024-03-10 09:00, end 2024-03-10 08:00, with a valid title
EndNotAfterStartWitness ==
    /\ op = "validateEventForm"
    /\ formData.startDate = <<"2", "0", "2", "4", "-", "0", "3", "-", "1", "0">>
    /\ formData.startTime = <<"0", "9", ":", "0", "0">>
    /\ formData.endDate = formData.startDate
    /\ formData.endTime = <<"0", "8", ":", "0", "0">>
    /\ DOMAIN errors = {"endDate"}
    /\ errors["endDate"] = "End must be after start"

(***************************************************************************)
(* C10 as claimed: validateEventForm on fields with End strictly after     *)
(* Start and all required fields present (title, start date, start time,   *)
(* end date, end time) returns an empty error mapping.                     *)
(***************************************************************************)
RequiredPresent(data) == data.title # <<>> /\ AllDateTimePresent(data)

EndAfterStartNoErrorsAlways ==
    (/\ op = "validateEventForm"
     /\ RequiredPresent(formData)
     /\ DateLT(FormStart(formData), FormEnd(formData)))
        => DOMAIN errors = {}

(***************************************************************************)
(* C10 amended: validateEventForm on fields with End strictly after Start, *)
(* all four date/time fields present, a title that is non-empty after      *)
(* trimming and at most 100 characters long, and a description of at most  *)
(* 500 characters returns an empty error mapping.                          *)
(***************************************************************************)
EndAfterStartNoErrors ==
    (/\ op = "validateEventForm"
     /\ AllDateTimePresent(formData)
     /\ DateLT(FormStart(formData), FormEnd(formData))
     /\ Trim(formData.title) # <<>>
     /\ Len(formData.title) <= 100
     /\ Len(formData.description) <= 500)
        => DOMAIN errors = {}

\* a title of exactly 100 characters and a description of exactly 500
\* pass, with end after start
EndAfterStartWitness ==
    /\ op = "validateEventForm"
    /\ Len(formData.title) = 100
    /\ Len(formData.description) = 500
    /\ AllDateTimePresent(formData)
    /\ DateLT(FormStart(formData), FormEnd(formData))
    /\ DOMAIN errors = {}

(***************************************************************************)
(* C11: validateEventForm runs every check independently.  The result has  *)
(* an error for title, description, startDate, startTime or endTime        *)
(* exactly when that field's own rule is violated (title empty after       *)
(* trimming or longer than 100 characters; description longer than 500     *)
(* characters; a date/time field empty), so several errors can be returned *)
(* at once; the End-after-Start check is applied only when all four        *)
(* date/time fields are present, and its error goes to endDate, which      *)
(* otherwise has an error exactly when it is empty.                        *)
(***************************************************************************)
ValidateChecksIndependent ==
    op = "validateEventForm" =>
        /\ "title" \in DOMAIN errors
               <=> (Trim(formData.title) = <<>> \/ Len(formData.title) > 100)
        /\ "description" \in DOMAIN errors <=> Len(formData.description) > 500
        /\ "startDate" \in DOMAIN errors <=> formData.startDate = <<>>
        /\ "startTime" \in DOMAIN errors <=> formData.startTime = <<>>
        /\ "endTime" \in DOMAIN errors <=> formData.endTime = <<>>
        /\ "endDate" \in DOMAIN errors
               <=> \/ formData.endDate = <<>>
                   \/ /\ AllDateTimePresent(formData)
                      /\ DateLE(FormEnd(formData), FormStart(formData))
        /\ (AllDateTimePresent(formData) /\ "endDate" \in DOMAIN errors)
               => errors["endDate"] = "End must be after start"
        /\ DOMAIN errors \subseteq
               {"title", "description", "startDate", "startTime", "endDate", "endTime"}

\* a whitespace title, a description of 501 characters, no start date, no
\* end time: four errors at once, and no End-after-Start error
ValidateChecksWitness ==
    /\ op = "validateEventForm"
    /\ formData.title = <<" ">>
    /\ Len(formData.description) = 501
    /\ formData.startDate = <<>> /\ formData.startTime # <<>>
    /\ formData.endDate # <<>> /\ formData.endTime = <<>>
    /\ DOMAIN errors = {"title", "description", "startDate", "endTime"}

(***************************************************************************)
(* C15: formDataToEvent(fields, existingId) returns an event whose id is   *)
(* existingId when one is given and a newly generated id otherwise, so     *)
(* converting the fields of an event under edit back with the event's id   *)
(* never changes the id.                                                   *)
(***************************************************************************)
IdKeptOrGenerated ==
    /\ op = "roundTrip" => converted.id = editingEvent.id
    /\ op = "formDataToEvent" => converted.id \in FreshIds

\* the event evt-1 comes back from its fields with the id evt-1 although
\* generateEventId would have returned another one
IdKeptWitness ==
    /\ op = "roundTrip"
    /\ editingEvent.id = EventIds[1]
    /\ converted.id = EventIds[1]
    /\ converted.id \notin FreshIds

(***************************************************************************)
(* C18: formDataToEvent trims the title and the description: the event's   *)
(* title is the form's title without its leading and trailing whitespace,  *)
(* a description that is empty or only whitespace becomes absent, any      *)
(* other description is stored trimmed, and an empty category becomes      *)
(* absent.                                                                 *)
(***************************************************************************)
\* t is s without its leading and trailing spaces
IsTrimOf(t, s) ==
    /\ t = <<>> \/ (t[1] # " " /\ t[Len(t)] # " ")
    /\ Len(t) <= Len(s)
    /\ \E i \in 0 .. (Len(s) - Len(t)) :
           s = Repeat(" ", i) \o t \o Repeat(" ", Len(s) - Len(t) - i)

OnlySpaces(s) == \A i \in 1 .. Len(s) : s[i] = " "

TrimsAndDropsEmpty ==
    op \in {"formDataToEvent", "roundTrip"} =>
        /\ IsTrimOf(converted.title, formData.title)
        /\ IF OnlySpaces(formData.description)
           THEN converted.description = Absent
           ELSE IsTrimOf(converted.description, formData.description)
        /\ formData.category = <<>> => converted.category = Absent

\* the title ' a ' is stored as 'a', the description ' ' and the category
\* '' are dropped
TrimsAndDropsWitness ==
    /\ op = "formDataToEvent"
    /\ formData.title = <<" ", "a", " ">>
    /\ formData.description = <<" ">>
    /\ formData.category = <<>>
    /\ converted.title = <<"a">>
    /\ converted.description = Absent
    /\ converted.category = Absent

(***************************************************************************)
(* getDefaultFormData                                                      *)
(***************************************************************************)
\* clock is what new Date() returns when no date is handed in
getDefaultFormData(date, clock) ==
    LET nowOrDate == IF date # NoDate THEN date ELSE clock
        startDate == formatDateForInput(nowOrDate)
        startHour == getHours(nowOrDate) + 1
        startTime == PadStart(ToDigits(startHour), 2) \o <<":", "0", "0">>
        endTime == PadStart(ToDigits(startHour + 1), 2) \o <<":", "0", "0">>
    IN  [title |-> <<>>, description |-> <<>>,
         startDate |-> startDate, startTime |-> startTime,
         endDate |-> startDate, endTime |-> endTime,
         color |-> EVENT_COLORS[1], category |-> <<>>]

(***************************************************************************)
(* Specification of the default fields: the clock and the date the modal   *)
(* is opened on (none, a month cell, or an hour slot of the week view) are *)
(* drawn, and the modal computes the fields of the new event.              *)
(***************************************************************************)
ClockDays == {DayNumber(2024, 2, 28), DayNumber(2024, 12, 31)}

\* every hour of the day, on the hour and at 30 minutes 15 seconds past it
ClockTimes ==
    { h * MsPerHour + m : h \in 0 .. 23, m \in {0, 30 * MsPerMinute + 15000} }

ClockInstants == { MkDate(n, t) : n \in ClockDays, t \in ClockTimes }

\* MonthView hands the cell's date (midnight), WeekView.handleTimeSlotClick
\* the day with setHours(hour, 0, 0, 0)
ClickedDates == { MkDate(DayNumber(2024, 3, 10), h * MsPerHour) : h \in 0 .. 23 }

InitDefaults ==
    /\ op = "init"
    /\ GridIdle
    /\ BucketIdle
    /\ FormIdle
    /\ NavIdle
    /\ LayoutIdle
    /\ modalOpen = FALSE
    /\ calls = <<>>
    /\ now \in ClockInstants
    /\ selectedDate \in {NoDate} \cup ClickedDates

\* EventModal: setFormData(getDefaultFormData(selectedDate)), or
\* setFormData(getDefaultFormData()) without a selected date
DefaultFields ==
    /\ op = "init"
    /\ formData' = getDefaultFormData(selectedDate, now)
    /\ op' = "getDefaultFormData"
    /\ UNCHANGED <<navVars, layoutVars, modalVars, gridVars, bucketVars, editingEvent, errors, converted>>

NextDefaults == DefaultFields

SpecDefaults == InitDefaults /\ [][NextDefaults]_vars

(***************************************************************************)
(* C19 as claimed: getDefaultFormData() called with no date gives, for     *)
(* every hour 0..23 of the current time now: startDate and startTime are   *)
(* the calendar date and HH:mm of the top of the hour following now, and   *)
(* endDate and endTime the date and HH:mm one hour after that, including   *)
(* the hours 22 and 23, where those instants fall on the next day.         *)
(***************************************************************************)
\* the top of the hour following the instant d
NextHour(d) == AddMs(MkDate(d.day, getHours(d) * MsPerHour), MsPerHour)

DefaultsAreNextHourAlways ==
    (op = "getDefaultFormData" /\ selectedDate = NoDate) =>
        /\ formData.startDate = formatDateForInput(NextHour(now))
        /\ formData.startTime = formatTimeForInput(NextHour(now))
        /\ formData.endDate = formatDateForInput(AddMs(NextHour(now), MsPerHour))
        /\ formData.endTime = formatTimeForInput(AddMs(NextHour(now), MsPerHour))

(***************************************************************************)
(* C20 as claimed: getDefaultFormData(clickedDate) gives fields whose      *)
(* startDate and endDate equal clickedDate's calendar date, while          *)
(* startTime and endTime follow the default time rule taken from the       *)
(* current time, not from clickedDate's own time of day; title and         *)
(* description are empty, color is the first palette color, category is    *)
(* empty.                                                                  *)
(***************************************************************************)
ClickedDateKeepsClockTimeAlways ==
    (op = "getDefaultFormData" /\ selectedDate # NoDate) =>
        /\ formData.startDate = formatDateForInput(selectedDate)
        /\ formData.endDate = formatDateForInput(selectedDate)
        /\ formData.startTime = formatTimeForInput(NextHour(now))
        /\ formData.endTime = formatTimeForInput(AddMs(NextHour(now), MsPerHour))
        /\ formData.title = <<>> /\ formData.description = <<>>
        /\ formData.color = EVENT_COLORS[1] /\ formData.category = <<>>

CommittedEventValidAlways ==
    (op = "handleSubmit" /\ converted # NoEvent) =>
        /\ DateLT(converted.startDate, converted.endDate)
        /\ converted.title # <<>> /\ Len(converted.title) <= 100
        /\ converted.description = Absent \/ Len(converted.description) <= 500

(***************************************************************************)
(* The embedder of the README: it keeps the event list and applies the     *)
(* three callbacks to it.  A call is a record [fn, id, event].             *)
(***************************************************************************)
\* onEventAdd: setEvents(prev => [...prev, event])
onEventAdd(evts, event) == Append(evts, event)

\* { ...e, ...updates }: every key of updates, and the keys e alone has
MergeEvent(e, updates) == updates @@ e

\* onEventUpdate: prev.map(e => e.id === id ? { ...e, ...updates } : e)
onEventUpdate(evts, id, updates) ==
    [i \in 1 .. Len(evts) |->
        IF evts[i].id = id THEN MergeEvent(evts[i], updates) ELSE evts[i]]

\* onEventDelete: prev.filter(e => e.id !== id)
onEventDelete(evts, id) ==
    LET Keep(e) == e.id # id
    IN  SelectSeq(evts, Keep)

\* the list after the embedder has run the callback
ApplyCall(evts, call) ==
    IF call.fn = "onEventAdd" THEN onEventAdd(evts, call.event)
    ELSE IF call.fn = "onEventUpdate" THEN onEventUpdate(evts, call.id, call.event)
    ELSE onEventDelete(evts, call.id)

\* handleSave that adds whatever is being edited
handleSaveAlwaysAdd(editing, event) ==
    [fn |-> "onEventAdd", id |-> event.id, event |-> event]

\* CalendarView.handleSave: the callback it calls
handleSave(editing, event) ==
    IF editing # NoEvent
    THEN [fn |-> "onEventUpdate", id |-> event.id, event |-> event]
    ELSE [fn |-> "onEventAdd", id |-> event.id, event |-> event]

\* the ids generateEventId can return
AppIds == { EventIds[i] : i \in 1 .. MaxEvents }

\* generateEventId that can return an id of the list
generateEventIdAny(evts) == AppIds

\* what generateEventId() can return: an id that no event of the list has
\* (Date.now() and nine random characters)
generateEventId(evts) ==
    { id \in AppIds : \A i \in 1 .. Len(evts) : evts[i].id # id }

\* existingId ?? generateEventId(): the id is generated only when none is
\* handed in
GeneratedFor(existingId, evts) ==
    IF existingId # NoId THEN {NoId} ELSE generateEventId(evts)

(***************************************************************************)
(* Specification of the calendar view with its event modal, embedded as in *)
(* the README: the modal is opened on a date or on an event of the list,   *)
(* its fields are edited, and it is submitted, deleted or closed.          *)
(***************************************************************************)
\* the value of an errors key that was set to undefined
NoMessage == "undefined"

AppClock == { MkDate(DayNumber(2024, 3, 9), 14 * MsPerHour + 30 * MsPerMinute) }

\* the month cell of 2024-03-10
AppClickedDates == { MkDate(DayNumber(2024, 3, 10), 0) }

\* what the user types: a field of the form and its new value
AppEdits ==
    { <<"title", <<>> >>, <<"title", <<" ", "a">> >>,
      <<"endTime", <<"0", "0", ":", "3", "0">> >> }

\* getDefaultFormData() at each instant of the clock
DefaultsAtClock == [c \in AppClock |-> getDefaultFormData(NoDate, c)]

\* EventModal's effect after the modal has closed: no event, no selected
\* date, so the fields are the defaults of the current time
ResetAfterClose ==
    /\ modalOpen' = FALSE
    /\ editingEvent' = NoEvent
    /\ selectedDate' = NoDate
    /\ errors' = NoErrors
    /\ \E c \in AppClock :
           /\ now' = c
           /\ formData' = DefaultsAtClock[c]

Init ==
    /\ op = "init"
    /\ refDate \in AppClickedDates    \* initialDate: the day that is clicked
    /\ grid = <<>>
    /\ BucketIdle
    /\ NavIdle
    /\ LayoutIdle
    /\ editingEvent = NoEvent
    /\ errors = NoErrors
    /\ converted = NoEvent
    /\ selectedDate = NoDate
    /\ modalOpen = FALSE
    /\ calls = <<>>
    /\ \E c \in AppClock :
           /\ now = c
           /\ formData = getDefaultFormData(NoDate, c)

\* what the calendar view and the modal leave alone
modalFrame == <<gridVars, queryDate, result, converted, layoutVars, view, history>>
appFrame == <<modalFrame, calendarSelectedDate>>

\* CalendarView.handleDateClick: selectDate(date) and openCreateModal(date),
\* then EventModal's effect sets the fields to the defaults of the date
HandleDateClick ==
    /\ ~modalOpen
    /\ \E date \in AppClickedDates :
           /\ calendarSelectedDate' = date
           /\ selectedDate' = date
           /\ formData' = getDefaultFormData(date, now)
    /\ editingEvent' = NoEvent
    /\ modalOpen' = TRUE
    /\ errors' = NoErrors
    /\ calls' = <<>>
    /\ op' = "handleDateClick"
    /\ UNCHANGED <<modalFrame, events, now>>

\* The Add Event button of CalendarView: openCreateModal(currentDate), then
\* EventModal's effect sets the fields to the defaults of the current date
HandleAddEventClick ==
    /\ ~modalOpen
    /\ selectedDate' = refDate
    /\ formData' = getDefaultFormData(refDate, now)
    /\ editingEvent' = NoEvent
    /\ modalOpen' = TRUE
    /\ errors' = NoErrors
    /\ calls' = <<>>
    /\ op' = "addEventClick"
    /\ UNCHANGED <<appFrame, events, now>>

\* handleEventClick whose modal keeps the fields and the errors it has
HandleEventClickStaleFields ==
    /\ ~modalOpen
    /\ \E i \in 1 .. Len(events) : editingEvent' = events[i]
    /\ selectedDate' = NoDate
    /\ modalOpen' = TRUE
    /\ calls' = <<>>
    /\ op' = "handleEventClick"
    /\ UNCHANGED <<appFrame, events, now, formData, errors>>

\* CalendarView.handleEventClick: openEditModal(event), then EventModal's
\* effect sets the fields to those of the event
HandleEventClick ==
    /\ ~modalOpen
    /\ \E i \in 1 .. Len(events) :
           /\ editingEvent' = events[i]
           /\ formData' = eventToFormData(events[i])
    /\ selectedDate' = NoDate
    /\ modalOpen' = TRUE
    /\ errors' = NoErrors
    /\ calls' = <<>>
    /\ op' = "handleEventClick"
    /\ UNCHANGED <<appFrame, events, now>>

\* EventModal.handleInputChange(field): the field is set, and its error, if
\* it has one, is set to undefined
HandleInputChange ==
    /\ modalOpen
    /\ \E ed \in AppEdits :
           /\ formData' = [formData EXCEPT ![ed[1]] = ed[2]]
           /\ errors' = IF ed[1] \in DOMAIN errors /\ errors[ed[1]] # NoMessage
                        THEN [errors EXCEPT ![ed[1]] = NoMessage]
                        ELSE errors
    /\ op' = "handleInputChange"
    /\ UNCHANGED <<appFrame, events, editingEvent, now, selectedDate, modalOpen, calls>>

\* EventModal.handleSelectChange('category')
HandleSelectChange ==
    /\ modalOpen
    /\ \E value \in {EVENT_CATEGORIES[2]} :
           formData' = [formData EXCEPT !.category = value]
    /\ op' = "handleSelectChange"
    /\ UNCHANGED <<appFrame, events, editingEvent, errors, now, selectedDate,
                   modalOpen, calls>>

\* EventModal.handleColorSelect
HandleColorSelect ==
    /\ modalOpen
    /\ \E color \in {EVENT_COLORS[2]} :
           formData' = [formData EXCEPT !.color = color]
    /\ op' = "handleColorSelect"
    /\ UNCHANGED <<appFrame, events, editingEvent, errors, now, selectedDate,
                   modalOpen, calls>>

\* handleSubmit without the validation: the fields are converted and saved
\* as they are
HandleSubmitUnchecked ==
    /\ modalOpen
    /\ op' = "handleSubmit"
    /\ \E freshId \in GeneratedFor(editingEvent.id, events) :
           LET calendarEvent == formDataToEvent(formData, editingEvent.id, freshId)
               call == handleSave(editingEvent, calendarEvent)
           IN  /\ calls' = Append(calls, call)
               /\ events' = ApplyCall(events, call)
    /\ Len(events') <= MaxEvents
    /\ ResetAfterClose
    /\ UNCHANGED appFrame

\* EventModal.handleSubmit: with validation errors they are stored and
\* nothing else happens; without, the event is handed to onSave
\* (CalendarView.handleSave and the embedder's callback), the modal is
\* closed and EventModal's effect resets the fields
HandleSubmit ==
    /\ modalOpen
    /\ op' = "handleSubmit"
    /\ IF DOMAIN validateEventForm(formData) # {}
       THEN /\ errors' = validateEventForm(formData)
            /\ UNCHANGED <<events, editingEvent, formData, now, selectedDate,
                           modalOpen, calls>>
       ELSE /\ \E freshId \in GeneratedFor(editingEvent.id, events) :
                   LET calendarEvent ==
                           formDataToEvent(formData, editingEvent.id, freshId)
                       call == handleSave(editingEvent, calendarEvent)
                   IN  /\ calls' = Append(calls, call)
                       /\ events' = ApplyCall(events, call)
            /\ Len(events') <= MaxEvents
            /\ ResetAfterClose
    /\ UNCHANGED appFrame

\* handleDelete with a button that is rendered for a new event too
HandleDeleteAlwaysRendered ==
    /\ modalOpen
    /\ LET call == [fn |-> "onEventDelete", id |-> editingEvent.id, event |-> NoEvent]
       IN  /\ calls' = Append(calls, call)
           /\ events' = ApplyCall(events, call)
    /\ ResetAfterClose
    /\ op' = "handleDelete"
    /\ UNCHANGED appFrame

\* EventModal.handleDelete: the button is rendered for an event under edit
HandleDelete ==
    /\ modalOpen
    /\ editingEvent # NoEvent
    /\ LET call == [fn |-> "onEventDelete", id |-> editingEvent.id, event |-> NoEvent]
       IN  /\ calls' = Append(calls, call)
           /\ events' = ApplyCall(events, call)
    /\ ResetAfterClose
    /\ op' = "handleDelete"
    /\ UNCHANGED appFrame

\* onClose: the Cancel button, the Escape key, the backdrop
CloseModal ==
    /\ modalOpen
    /\ ResetAfterClose
    /\ op' = "closeModal"
    /\ UNCHANGED <<appFrame, events, calls>>

Next ==
    \/ HandleDateClick
    \/ HandleAddEventClick
    \/ HandleEventClick
    \/ HandleInputChange
    \/ HandleSelectChange
    \/ HandleColorSelect
    \/ HandleSubmit
    \/ HandleDelete
    \/ CloseModal

Spec == Init /\ [][Next]_vars

(***************************************************************************)
(* C12: a submit of fields for which validateEventForm returns at least    *)
(* one error hands no event to the embedder (no callback is called and the *)
(* list is unchanged), leaves the modal open with its fields, and stores   *)
(* the errors; and a step that calls onEventAdd or onEventUpdate is a      *)
(* submit of fields whose validation result is empty, so no commit happens *)
(* before such a submit.                                                   *)
(***************************************************************************)
IsSaveCall(call) == call.fn \in {"onEventAdd", "onEventUpdate"}

NoCommitOnErrors ==
    [][/\ (op' = "handleSubmit" /\ DOMAIN validateEventForm(formData) # {}) =>
              /\ calls' = calls
              /\ events' = events
              /\ modalOpen'
              /\ formData' = formData
              /\ errors' = validateEventForm(formData)
       /\ (calls' # calls /\ calls' # <<>> /\ IsSaveCall(calls'[Len(calls')])) =>
              /\ op' = "handleSubmit"
              /\ DOMAIN validateEventForm(formData) = {}]_vars

\* a submit with the end time 00:30 before the start 01:00 and no title: the
\* modal is still open, both errors are stored, nothing was called
NoCommitOnErrorsWitness ==
    /\ op = "handleSubmit"
    /\ modalOpen
    /\ formData.title = <<>>
    /\ formData.endTime = <<"0", "0", ":", "3", "0">>
    /\ DOMAIN errors = {"title", "endDate"}
    /\ errors = validateEventForm(formData)
    /\ calls = <<>>

(***************************************************************************)
(* C14: the form layer changes the embedder's list only through the        *)
(* callbacks.  The commit of a create session calls onEventAdd exactly     *)
(* once and never onEventUpdate; the commit of an edit session calls       *)
(* onEventUpdate exactly once, with the id of the event under edit, and    *)
(* never onEventAdd; delete calls onEventDelete exactly once with the id   *)
(* of the event under edit and saves nothing; cancel calls none; while the *)
(* modal stays open nothing has been called.                               *)
(***************************************************************************)
CallbacksPerSession ==
    [][/\ (op' = "handleSubmit" /\ ~modalOpen') =>
              /\ Len(calls') = 1
              /\ calls'[1].id = calls'[1].event.id
              /\ IF editingEvent = NoEvent
                 THEN calls'[1].fn = "onEventAdd"
                 ELSE calls'[1].fn = "onEventUpdate" /\ calls'[1].id = editingEvent.id
       /\ op' = "handleDelete" =>
              calls' = << [fn |-> "onEventDelete", id |-> editingEvent.id,
                           event |-> NoEvent] >>
       /\ op' = "closeModal" => calls' = <<>>
       /\ modalOpen' => calls' = <<>>
       /\ events' # events =>
              /\ calls' # <<>>
              /\ events' = ApplyCall(events, calls'[Len(calls')])]_vars

\* the second of two events was edited and saved: one call, onEventUpdate
\* with its id, and the list holds the event handed over
CallbacksPerSessionWitness ==
    /\ op = "handleSubmit"
    /\ ~modalOpen
    /\ Len(calls) = 1
    /\ calls[1].fn = "onEventUpdate"
    /\ Len(events) = 2
    /\ events[2].id = calls[1].id
    /\ events[2] = calls[1].event
    /\ events[2].category = EVENT_CATEGORIES[2]

(***************************************************************************)
(* C16: after any sequence of create, edit and delete commits applied by   *)
(* the embedder as in the README (append on add, merge by id on update,    *)
(* filter by id on delete), the ids of the list are pairwise distinct; an  *)
(* add appends; an update changes only the event with the given id and     *)
(* keeps the list's length and order; a delete removes exactly the event   *)
(* with the given id -- generateEventId never returning an id that is      *)
(* already in the list.                                                    *)
(***************************************************************************)
DistinctIds(evts) ==
    \A i, j \in 1 .. Len(evts) : evts[i].id = evts[j].id => i = j

ListIntegrity ==
    [][/\ DistinctIds(events')
       /\ (op' = "handleSubmit" /\ ~modalOpen' /\ editingEvent = NoEvent) =>
              /\ Len(events') = Len(events) + 1
              /\ SubSeq(events', 1, Len(events)) = events
       /\ (op' = "handleSubmit" /\ ~modalOpen' /\ editingEvent # NoEvent) =>
              /\ Len(events') = Len(events)
              /\ \A i \in 1 .. Len(events) :
                     /\ events'[i].id = events[i].id
                     /\ events[i].id # editingEvent.id => events'[i] = events[i]
       /\ op' = "handleDelete" =>
              \E k \in 1 .. Len(events) :
                  /\ events[k].id = editingEvent.id
                  /\ events' = SubSeq(events, 1, k - 1)
                                   \o SubSeq(events, k + 1, Len(events))]_vars

\* one of two events was deleted: the other one is left
ListIntegrityWitness ==
    /\ op = "handleDelete"
    /\ Len(events) = 1
    /\ Len(calls) = 1
    /\ calls[1].fn = "onEventDelete"
    /\ calls[1].id # events[1].id

(***************************************************************************)
(* The layout of the week view.  A JavaScript number that is no integer is *)
(* modelled as the exact fraction num / den with den > 0.                  *)
(***************************************************************************)
Fraction(n, d) == [num |-> n, den |-> d]

FracLT(a, b) == a.num * b.den < b.num * a.den

FracLE(a, b) == a.num * b.den <= b.num * a.den

FracEQ(a, b) == a.num * b.den = b.num * a.den

\* Math.max(a, b)
FracMax(a, b) == IF FracLT(a, b) THEN b ELSE a

\* differenceInMinutes(dateLeft, dateRight): the milliseconds between the two
\* instants over 60000, rounded towards zero
differenceInMinutes(dateLeft, dateRight) ==
    LET days == dateLeft.day - dateRight.day
        rest == dateLeft.ms - dateRight.ms
    IN  IF days > 0 \/ (days = 0 /\ rest >= 0)
        THEN days * (24 * 60) + (rest \div MsPerMinute)
        ELSE -((-days) * (24 * 60) + ((-rest) \div MsPerMinute))

\* getTimeSlotPosition that counts the hours only
getTimeSlotPositionHourOnly(date) == Fraction(getHours(date) * 60 * 100, 24 * 60)

getTimeSlotPosition(date) ==
    LET hours == getHours(date)
        minutes == getMinutes(date)
    IN  Fraction((hours * 60 + minutes) * 100, 24 * 60)

\* getEventHeight over the minutes of an hour instead of those of a day
getEventHeightPerHour(startDate, endDate) ==
    Fraction(differenceInMinutes(endDate, startDate) * 100, 60)

getEventHeight(startDate, endDate) ==
    LET durationMinutes == differenceInMinutes(endDate, startDate)
    IN  Fraction(durationMinutes * 100, 24 * 60)

\* the smallest height of a block, in percent
MinBlockHeight == 2

\* the overlay that draws every event getEventsForDay returns for the day
DayBlocksEveryDay(evts, day) ==
    LET dayEvents == getEventsForDate(evts, day)
    IN  [i \in 1 .. Len(dayEvents) |->
            [event |-> dayEvents[i],
             top |-> getTimeSlotPosition(dayEvents[i].startDate),
             height |-> FracMax(getEventHeight(dayEvents[i].startDate,
                                               dayEvents[i].endDate),
                                Fraction(MinBlockHeight, 1))]]

\* WeekView's events overlay of one day column: a block for every event of
\* the day that starts on the day
DayBlocks(evts, day) ==
    LET dayEvents == getEventsForDate(evts, day)
        StartsOnDay(event) == isSameDay(event.startDate, day)
        shown == SelectSeq(dayEvents, StartsOnDay)
    IN  [i \in 1 .. Len(shown) |->
            [event |-> shown[i],
             top |-> getTimeSlotPosition(shown[i].startDate),
             height |-> FracMax(getEventHeight(shown[i].startDate, shown[i].endDate),
                                Fraction(MinBlockHeight, 1))]]

(***************************************************************************)
(* Specification of the week view's layout: an instant is drawn and        *)
(* positioned; or a reference date is drawn and the week view lays out its *)
(* columns; or an event list is drawn with a reference date, and the week  *)
(* view measures the first event and lays out its columns and blocks.      *)
(***************************************************************************)
PositionDays == {DayNumber(2024, 2, 27), DayNumber(2024, 12, 31)}

\* every hour, at 0, 30 and 59 minutes, on the minute and 59.999 s past it
PositionTimes ==
    { h * MsPerHour + m * MsPerMinute + x :
        h \in 0 .. 23, m \in {0, 30, 59}, x \in {0, MsPerMinute - 1} }

PositionInstants == { MkDate(n, t) : n \in PositionDays, t \in PositionTimes }

\* around the week of Sunday 2024-02-25: the Saturday before it at 22:00,
\* its Tuesday at 09:00, 09:00:30 and 09:30, its Wednesday at 09:00, its
\* Thursday at 10:00, and the Sunday after it at 00:30
LayoutInstants ==
    { MkDate(WeekSunday - 1, 22 * MsPerHour),
      MkDate(WeekSunday + 2, 9 * MsPerHour),
      MkDate(WeekSunday + 2, 9 * MsPerHour + 30000),
      MkDate(WeekSunday + 2, 9 * MsPerHour + 30 * MsPerMinute),
      MkDate(WeekSunday + 3, 9 * MsPerHour),
      MkDate(WeekSunday + 4, 10 * MsPerHour),
      MkDate(WeekSunday + 7, 30 * MsPerMinute) }

\* the (start, end) pairs with end not before start
LayoutPairs == { p \in LayoutInstants \X LayoutInstants : DateLE(p[1], p[2]) }

\* a date of the week of 2024-02-25, and one of the week before it
LayoutRefDates ==
    { MkDate(WeekSunday + 3, 15 * MsPerHour), MkDate(WeekSunday - 1, 0) }

InitLayout ==
    /\ op = "init"
    /\ grid = <<>>
    /\ result = <<>>
    /\ FormIdle
    /\ ModalIdle
    /\ NavIdle
    /\ LayoutIdle
    /\ \/ /\ events = <<>>
          /\ refDate = MkDate(DayNumber(2024, 1, 1), 0)
          /\ queryDate \in PositionInstants
       \/ /\ events = <<>>
          /\ refDate \in RefDates
          /\ queryDate = MkDate(DayNumber(2024, 1, 1), 0)
       \/ /\ \E n \in 1 .. MaxEvents :
                 \E p \in [1 .. n -> LayoutPairs] :
                     events = [i \in 1 .. n |-> BucketEvent(i, p[i][1], p[i][2])]
          /\ refDate \in LayoutRefDates
          /\ queryDate = MkDate(DayNumber(2024, 1, 1), 0)

layoutFrame == <<grid, result, formVars, modalVars, navVars, refDate, events, queryDate>>

\* getTimeSlotPosition(queryDate)
TimeSlotPosition ==
    /\ op = "init"
    /\ position' = getTimeSlotPosition(queryDate)
    /\ op' = "getTimeSlotPosition"
    /\ UNCHANGED <<layoutFrame, weekColumns, blocks, height>>

\* getEventHeight of the first event of the list
EventHeight ==
    /\ op = "init"
    /\ Len(events) >= 1
    /\ height' = getEventHeight(events[1].startDate, events[1].endDate)
    /\ op' = "getEventHeight"
    /\ UNCHANGED <<layoutFrame, weekColumns, blocks, position>>

\* WeekView: the 7 day columns of currentDate's week, each with its blocks
RenderWeek ==
    /\ op = "init"
    /\ weekColumns' = getWeekDays(refDate)
    /\ blocks' = [k \in 1 .. Len(getWeekDays(refDate)) |->
                      DayBlocks(events, getWeekDays(refDate)[k])]
    /\ op' = "WeekView"
    /\ UNCHANGED <<layoutFrame, position, height>>

NextLayout == TimeSlotPosition \/ EventHeight \/ RenderWeek

SpecLayout == InitLayout /\ [][NextLayout]_vars

(***************************************************************************)
(* C21: getTimeSlotPosition(instant) equals (hour*60 + minute) / 1440 *    *)
(* 100, depends only on the time of day, and lies in [0, 100) for every    *)
(* instant: 0 at midnight, 50 at 12:00, 37.5 at 09:00, and strictly        *)
(* between 99 and 100 at 23:59.                                            *)
(***************************************************************************)
\* the whole minutes since midnight, from the time of day alone
MinutesOfDay(d) == d.ms \div MsPerMinute

PositionIsTimeOfDay ==
    op = "getTimeSlotPosition" =>
        /\ FracEQ(position, Fraction(MinutesOfDay(queryDate) * 100, 1440))
        /\ FracLE(Fraction(0, 1), position)
        /\ FracLT(position, Fraction(100, 1))
        /\ MinutesOfDay(queryDate) = 0 => FracEQ(position, Fraction(0, 1))
        /\ MinutesOfDay(queryDate) = 12 * 60 => FracEQ(position, Fraction(50, 1))
        /\ MinutesOfDay(queryDate) = 9 * 60 => FracEQ(position, Fraction(375, 10))
        /\ MinutesOfDay(queryDate) = 23 * 60 + 59 =>
               FracLT(Fraction(99, 1), position) /\ FracLT(position, Fraction(100, 1))

\* 2024-12-31 23:59:59.999: the position is 143900/1440, just below 100
PositionWitness ==
    /\ op = "getTimeSlotPosition"
    /\ queryDate = MkDate(DayNumber(2024, 12, 31), MsPerDay - 1)
    /\ position = Fraction(143900, 1440)

(***************************************************************************)
(* C22 as claimed: for every event with end strictly after start,          *)
(* getEventHeight(start, end) is a percentage in (0, 100]: greater than 0  *)
(* and never more than 100, also for events that last longer than 24      *)
(* hours or span several days.                                             *)
(***************************************************************************)
HeightIsPercentageAlways ==
    (op = "getEventHeight" /\ DateLT(events[1].startDate, events[1].endDate)) =>
        /\ FracLT(Fraction(0, 1), height)
        /\ FracLE(height, Fraction(100, 1))

(***************************************************************************)
(* C23: getEventHeight(start, end) equals the whole minutes between start  *)
(* and end divided by 1440 times 100, so an event from 09:00 to 09:30 on   *)
(* one day has height about 2.08 (30/1440*100) at vertical position 37.5;  *)
(* and every block of the week view has the height of its event, raised to *)
(* 2 when that is below 2, and shows an event of the list as it is.        *)
(***************************************************************************)
\* the milliseconds from instant a to instant b (b not before a)
MsBetween(a, b) == (b.day - a.day) * MsPerDay + (b.ms - a.ms)

\* whole minutes / 1440 * 100
MinutesShare(a, b) == Fraction((MsBetween(a, b) \div MsPerMinute) * 100, 1440)

IsHalfHourAtNine(e) ==
    /\ e.startDate.ms = 9 * MsPerHour
    /\ e.endDate = MkDate(e.startDate.day, 9 * MsPerHour + 30 * MsPerMinute)

HeightIsMinutesShare ==
    /\ op = "getEventHeight" =>
           /\ FracEQ(height, MinutesShare(events[1].startDate, events[1].endDate))
           /\ IsHalfHourAtNine(events[1]) =>
                  /\ FracLT(Fraction(208, 100), height)
                  /\ FracLT(height, Fraction(209, 100))
    /\ op = "WeekView" =>
           \A k \in 1 .. Len(blocks) : \A i \in 1 .. Len(blocks[k]) :
               LET b == blocks[k][i]
                   share == MinutesShare(b.event.startDate, b.event.endDate)
               IN  /\ InList(b.event, events)
                   /\ FracLE(Fraction(2, 1), share) => FracEQ(b.height, share)
                   /\ FracLT(share, Fraction(2, 1)) => FracEQ(b.height, Fraction(2, 1))
                   /\ IsHalfHourAtNine(b.event) => FracEQ(b.top, Fraction(375, 10))

\* Tuesday's column holds the event from 09:00 to 09:30 at 37.5 with height
\* 3000/1440, and the event from 09:00 to 09:00:30 with height 2
HeightWitness ==
    /\ op = "WeekView"
    /\ Len(blocks) = 7
    /\ Len(blocks[3]) = 2
    /\ IsHalfHourAtNine(blocks[3][1].event)
    /\ blocks[3][1].top = Fraction(54000, 1440)
    /\ blocks[3][1].height = Fraction(3000, 1440)
    /\ blocks[3][2].event.endDate = MkDate(WeekSunday + 2, 9 * MsPerHour + 30000)
    /\ blocks[3][2].height = Fraction(2, 1)

(***************************************************************************)
(* C26: for every date d, getWeekDays(d) returns exactly 7 dates, each one *)
(* calendar day after the previous one, running from the Sunday on or      *)
(* before d to the following Saturday, and d's calendar date is one of     *)
(* them.                                                                   *)
(***************************************************************************)
WeekIsSundayToSaturday ==
    op = "WeekView" =>
        /\ Len(weekColumns) = 7
        /\ \A k \in 1 .. (Len(weekColumns) - 1) :
               weekColumns[k + 1].day = weekColumns[k].day + 1
        /\ getDay(weekColumns[1].day) = 0
        /\ weekColumns[1].day <= refDate.day
        /\ getDay(weekColumns[7].day) = 6
        /\ refDate.day <= weekColumns[7].day
        /\ \E k \in 1 .. Len(weekColumns) : weekColumns[k].day = refDate.day

\* the last millisecond of Saturday 2024-03-02: the week began on 2024-02-25
\* and the Saturday is its seventh day
WeekWitness ==
    /\ op = "WeekView"
    /\ refDate = MkDate(DayNumber(2024, 3, 2), MsPerDay - 1)
    /\ Len(weekColumns) = 7
    /\ weekColumns[1].day = DayNumber(2024, 2, 25)
    /\ weekColumns[7].day = refDate.day

(***************************************************************************)
(* C27: in the week view an event gets a visual block in exactly one day   *)
(* column, the column of the calendar day on which it starts, and only     *)
(* when that day is one of the 7 displayed days; a multi-day event gets no *)
(* block in the columns of its later days (although getEventsForDate       *)
(* returns it for them), and an event that started before the displayed    *)
(* week gets no block at all.                                              *)
(***************************************************************************)
\* the number of blocks that column k has for the event e
BlocksOf(e, k) == Cardinality({ i \in 1 .. Len(blocks[k]) : blocks[k][i].event = e })

BlockOnStartDayOnly ==
    op = "WeekView" =>
        \A j \in 1 .. Len(events) : \A k \in 1 .. Len(blocks) :
            BlocksOf(events[j], k) =
                IF events[j].startDate.day = weekColumns[k].day THEN 1 ELSE 0

\* an event from Tuesday 09:00 to Thursday 10:00 has its block in Tuesday's
\* column and none in Wednesday's and Thursday's, whose days it is an event
\* of; the event that started on the Saturday before the week has no block
BlockWitness ==
    /\ op = "WeekView"
    /\ Len(events) = 2
    /\ events[1].startDate = MkDate(WeekSunday + 2, 9 * MsPerHour)
    /\ events[1].endDate = MkDate(WeekSunday + 4, 10 * MsPerHour)
    /\ events[2].startDate = MkDate(WeekSunday - 1, 22 * MsPerHour)
    /\ events[2].endDate = MkDate(WeekSunday + 3, 9 * MsPerHour)
    /\ weekColumns[1].day = WeekSunday
    /\ BlocksOf(events[1], 3) = 1
    /\ InList(events[1], getEventsForDate(events, weekColumns[4]))
    /\ InList(events[1], getEventsForDate(events, weekColumns[5]))
    /\ \A k \in 1 .. 7 : k # 3 => blocks[k] = <<>>

(***************************************************************************)
(* C24: the event form modal goes Closed -> Open -> Closed.  It opens      *)
(* either for a new event, with the default fields, or for an existing     *)
(* event of the list; a submit with validation errors leaves it open with  *)
(* the errors stored, and can be repeated; it leaves Open only by the      *)
(* commit of valid fields, by cancel or by delete, and by delete only      *)
(* while an existing event is edited; in every Open state the step to      *)
(* Closed is possible.                                                     *)
(***************************************************************************)
ModalStep ==
    /\ ~modalOpen =>
           /\ modalOpen'
           /\ \/ /\ op' \in {"handleDateClick", "addEventClick"}
                 /\ editingEvent' = NoEvent
                 /\ selectedDate' # NoDate
                 /\ formData' = getDefaultFormData(selectedDate', now)
              \/ /\ op' = "handleEventClick"
                 /\ InList(editingEvent', events)
                 /\ selectedDate' = NoDate
    /\ (modalOpen /\ op' = "handleSubmit" /\ DOMAIN validateEventForm(formData) # {}) =>
           /\ modalOpen'
           /\ errors' = validateEventForm(formData)
           /\ UNCHANGED <<events, calls, formData, editingEvent>>
    /\ (modalOpen /\ ~modalOpen') =>
           \/ /\ op' = "handleSubmit"
              /\ DOMAIN validateEventForm(formData) = {}
              /\ Len(calls') = Len(calls) + 1
           \/ /\ op' = "closeModal"
              /\ UNCHANGED <<events, calls>>
           \/ /\ op' = "handleDelete"
              /\ editingEvent # NoEvent
    /\ (modalOpen /\ modalOpen') =>
           op' \in {"handleSubmit", "handleInputChange", "handleSelectChange",
                    "handleColorSelect"}

ModalLifecycle == [][ModalStep /\ (modalOpen' => (ENABLED CloseModal)')]_vars

\* an existing event is under edit and a submit has just failed: the modal
\* is open with the errors, and submit, cancel and delete are all possible
ModalLifecycleWitness ==
    /\ op = "handleSubmit"
    /\ modalOpen
    /\ editingEvent # NoEvent
    /\ \E f \in DOMAIN errors : errors[f] # NoMessage
    /\ ENABLED HandleSubmit
    /\ ENABLED HandleDelete
    /\ ENABLED CloseModal

(***************************************************************************)
(* C25: no form state persists across modal sessions: whenever the modal   *)
(* is opened the fields are those of the event under edit, or the defaults *)
(* of the clicked date or of the current time, and the errors are empty.   *)
(***************************************************************************)
FormReinitialisedOnOpen ==
    [][ (~modalOpen /\ modalOpen') =>
            /\ errors' = NoErrors
            /\ formData' = IF editingEvent' # NoEvent
                            THEN eventToFormData(editingEvent')
                            ELSE getDefaultFormData(selectedDate', now') ]_vars

\* a later session: the modal has been opened for an event that an earlier
\* session committed, with the fields of that event and no errors
FormReinitialisedWitness ==
    /\ op = "handleEventClick"
    /\ modalOpen
    /\ Len(events) = 2
    /\ editingEvent = events[2]
    /\ formData = eventToFormData(events[2])
    /\ formData # getDefaultFormData(NoDate, now)
    /\ errors = NoErrors

(***************************************************************************)
(* useCalendar: the reference date, the view and the selected date, and    *)
(* the period-advance functions of date.utils.  history records, for each  *)
(* operation applied, the state that it found.                             *)
(***************************************************************************)
MaxNavSteps == 2

\* the months counted from year 0, so that the next month of December is
\* January of the next year
MonthIndex(n) == YearOf(n) * 12 + MonthOf(n) - 1

\* addMonths that sets the month and lets the day of the month overflow into
\* the month after, as Date.setMonth does
addMonthsOverflow(date, amount) ==
    LET target == MonthIndex(date.day) + amount
        y == target \div 12
        m == (target % 12) + 1
    IN  MkDate(DayNumber(y, m, 1) + DayOfMonth(date.day) - 1, date.ms)

\* date-fns addMonths: the same day of the month in the desired month, or
\* the last day of that month when it is shorter; the time of day is kept
addMonths(date, amount) ==
    LET target == MonthIndex(date.day) + amount
        y == target \div 12
        m == (target % 12) + 1
        dayOfMonth == DayOfMonth(date.day)
        daysInMonth == DaysInMonth(y, m)
    IN  IF amount = 0 THEN date
        ELSE IF dayOfMonth >= daysInMonth
             THEN MkDate(DayNumber(y, m, daysInMonth), date.ms)
             ELSE MkDate(DayNumber(y, m, dayOfMonth), date.ms)

subMonths(date, amount) == addMonths(date, -amount)

\* date-fns addWeeks: addDays(date, amount * 7), in local time
addWeeks(date, amount) == MkDate(date.day + amount * 7, date.ms)

subWeeks(date, amount) == addWeeks(date, -amount)

getNextMonth(date) == addMonths(date, 1)

getPreviousMonth(date) == subMonths(date, 1)

getNextWeek(date) == addWeeks(date, 1)

getPreviousWeek(date) == subWeeks(date, 1)

CalendarViews == {"month", "week"}

\* the reference dates the hook is started with: every day of 2024
NavTimes == {45296789}

NavDates ==
    { MkDate(n, t) : n \in DayNumber(2024, 1, 1) .. DayNumber(2024, 12, 31),
                     t \in NavTimes }

\* the clock read by goToToday, and the dates handed to goToDate and
\* selectDate
NavClock == { MkDate(DayNumber(2024, 3, 9), 14 * MsPerHour + 30 * MsPerMinute) }

NavTargets == { MkDate(DayNumber(2025, 1, 31), 0) }

\* useCalendar(initialDate, initialView)
InitNav ==
    /\ op = "init"
    /\ grid = <<>>
    /\ BucketIdle
    /\ FormIdle
    /\ LayoutIdle
    /\ refDate \in NavDates
    /\ view \in CalendarViews
    /\ calendarSelectedDate = NoDate
    /\ history = <<>>
    /\ now \in NavClock
    /\ selectedDate = NoDate
    /\ modalOpen = FALSE
    /\ calls = <<>>

navFrame == <<grid, bucketVars, formVars, layoutVars, selectedDate, modalOpen, calls>>

\* the record of an operation and of the state that it found
Found(name) ==
    [op |-> name, currentDate |-> refDate, view |-> view,
     selectedDate |-> calendarSelectedDate]

Record(name) ==
    /\ Len(history) < MaxNavSteps
    /\ history' = Append(history, Found(name))
    /\ op' = name

GoToNextPeriod ==
    /\ Record("goToNextPeriod")
    /\ refDate' = IF view = "month" THEN getNextMonth(refDate)
                                    ELSE getNextWeek(refDate)
    /\ UNCHANGED <<navFrame, view, calendarSelectedDate, now>>

\* goToPreviousPeriod that goes back a week in either view
GoToPreviousPeriodByWeek ==
    /\ Record("goToPreviousPeriod")
    /\ refDate' = getPreviousWeek(refDate)
    /\ UNCHANGED <<navFrame, view, calendarSelectedDate, now>>

GoToPreviousPeriod ==
    /\ Record("goToPreviousPeriod")
    /\ refDate' = IF view = "month" THEN getPreviousMonth(refDate)
                                    ELSE getPreviousWeek(refDate)
    /\ UNCHANGED <<navFrame, view, calendarSelectedDate, now>>

\* goToToday: currentDate is new Date()
GoToToday ==
    /\ Record("goToToday")
    /\ \E c \in NavClock :
           /\ now' = c
           /\ refDate' = c
    /\ UNCHANGED <<navFrame, view, calendarSelectedDate>>

GoToDate ==
    /\ Record("goToDate")
    /\ \E date \in NavTargets : refDate' = date
    /\ UNCHANGED <<navFrame, view, calendarSelectedDate, now>>

SetView ==
    /\ Record("setView")
    /\ \E v \in CalendarViews : view' = v
    /\ UNCHANGED <<navFrame, refDate, calendarSelectedDate, now>>

SelectDate ==
    /\ Record("selectDate")
    /\ \E date \in NavTargets : calendarSelectedDate' = date
    /\ UNCHANGED <<navFrame, refDate, view, now>>

NextNav ==
    \/ GoToNextPeriod
    \/ GoToPreviousPeriod
    \/ GoToToday
    \/ GoToDate
    \/ SetView
    \/ SelectDate

SpecNav == InitNav /\ [][NextNav]_vars

(***************************************************************************)
(* C28: goToNextPeriod and goToPreviousPeriod move the reference date by   *)
(* exactly one period of the current view: by 7 days in the week view, to  *)
(* the following or the preceding calendar month in the month view (never  *)
(* skipping a month, never staying), for every day of the month, the 29th  *)
(* to the 31st included; the view and the selected date are unchanged.     *)
(***************************************************************************)
LastFound == history[Len(history)]

PeriodSign == IF op = "goToNextPeriod" THEN 1 ELSE -1

MovesOnePeriod ==
    op \in {"goToNextPeriod", "goToPreviousPeriod"} =>
        /\ view = LastFound.view
        /\ calendarSelectedDate = LastFound.selectedDate
        /\ view = "week" =>
               refDate = MkDate(LastFound.currentDate.day + 7 * PeriodSign,
                                LastFound.currentDate.ms)
        /\ view = "month" =>
               MonthIndex(refDate.day) =
                   MonthIndex(LastFound.currentDate.day) + PeriodSign

\* the next month of 31 January 2024 is February 2024, with a date selected
\* before
MovesOnePeriodWitness ==
    /\ op = "goToNextPeriod"
    /\ view = "month"
    /\ Len(history) = 2
    /\ history[1].op = "selectDate"
    /\ LastFound.currentDate.day = DayNumber(2024, 1, 31)
    /\ refDate.day = DayNumber(2024, 2, 29)
    /\ calendarSelectedDate # NoDate

(***************************************************************************)
(* C29: goToNextPeriod followed by goToPreviousPeriod, and                 *)
(* goToPreviousPeriod followed by goToNextPeriod, restore the reference    *)
(* date.  As claimed: to exactly the date it had before, for every date    *)
(* and in either view (PeriodRoundTripExact).  As the code has it: in      *)
(* the week view exactly; in the month view the month, the year and the    *)
(* time of day are restored, and the day of the month is the smaller of    *)
(* the day it was and the number of days of the month in between, so the   *)
(* date is restored exactly when its day exists in that month              *)
(* (PeriodRoundTripMonth).                                                 *)
(***************************************************************************)
\* the last two operations were a period advance and its opposite
IsPeriodRoundTrip ==
    /\ Len(history) >= 2
    /\ op \in {"goToNextPeriod", "goToPreviousPeriod"}
    /\ history[Len(history) - 1].op \in {"goToNextPeriod", "goToPreviousPeriod"}
    /\ history[Len(history) - 1].op # op
    /\ history[Len(history) - 1].view = LastFound.view

DateBefore == history[Len(history) - 1].currentDate

DateBetween == LastFound.currentDate

PeriodRoundTripExact == IsPeriodRoundTrip => refDate = DateBefore

PeriodRoundTripMonth ==
    IsPeriodRoundTrip =>
        IF view = "week"
        THEN refDate = DateBefore
        ELSE LET y == YearOf(DateBefore.day)
                 m == MonthOf(DateBefore.day)
                 was == DayOfMonth(DateBefore.day)
                 between == DaysInMonth(YearOf(DateBetween.day), MonthOf(DateBetween.day))
             IN  refDate = MkDate(DayNumber(y, m, IF was < between THEN was ELSE between),
                                  DateBefore.ms)

\* 31 January 2024, next month (29 February), previous month: 29 January
PeriodRoundTripWitness ==
    /\ IsPeriodRoundTrip
    /\ view = "month"
    /\ op = "goToPreviousPeriod"
    /\ DateBefore.day = DayNumber(2024, 1, 31)
    /\ DateBetween.day = DayNumber(2024, 2, 29)
    /\ refDate = MkDate(DayNumber(2024, 1, 29), DateBefore.ms)

(***************************************************************************)
(* useEventManager: the three functions of the hook, called in any order.  *)
(* The three setters of a function are applied together.                   *)
(***************************************************************************)
\* the dates handed to openCreateModal and the events handed to
\* openEditModal
ManagerDates == LayoutInstants \cup NavDates

ManagerEvents ==
    { BucketEvent(i, p[1], p[2]) : i \in 1 .. MaxEvents, p \in LayoutPairs }

InitManager ==
    /\ op = "init"
    /\ GridIdle
    /\ BucketIdle
    /\ FormIdle
    /\ ModalIdle
    /\ NavIdle
    /\ LayoutIdle

managerFrame ==
    <<gridVars, bucketVars, navVars, layoutVars, formData, errors, converted, now, calls>>

\* openCreateModal that leaves the event under edit as it is
openCreateModalKeepsEvent ==
    /\ \E date \in ManagerDates : selectedDate' = date
    /\ modalOpen' = TRUE
    /\ op' = "openCreateModal"
    /\ UNCHANGED <<managerFrame, editingEvent>>

openCreateModal ==
    /\ editingEvent' = NoEvent
    /\ \E date \in ManagerDates : selectedDate' = date
    /\ modalOpen' = TRUE
    /\ op' = "openCreateModal"
    /\ UNCHANGED managerFrame

openEditModal ==
    /\ \E event \in ManagerEvents : editingEvent' = event
    /\ selectedDate' = NoDate
    /\ modalOpen' = TRUE
    /\ op' = "openEditModal"
    /\ UNCHANGED managerFrame

closeModal ==
    /\ modalOpen' = FALSE
    /\ editingEvent' = NoEvent
    /\ selectedDate' = NoDate
    /\ op' = "closeModal"
    /\ UNCHANGED managerFrame

NextManager ==
    \/ openCreateModal
    \/ openEditModal
    \/ closeModal

SpecManager == InitManager /\ [][NextManager]_vars

(***************************************************************************)
(* C30: in every state reachable through openCreateModal, openEditModal    *)
(* and closeModal: when the modal is closed, editingEvent and selectedDate *)
(* are both null; they are never both non-null; and the open modal is in   *)
(* edit mode (editingEvent non-null) exactly when the last function that   *)
(* opened it was openEditModal.                                            *)
(***************************************************************************)
ManagerInvariant ==
    /\ ~modalOpen => (editingEvent = NoEvent /\ selectedDate = NoDate)
    /\ ~(editingEvent # NoEvent /\ selectedDate # NoDate)
    /\ modalOpen => op \in {"openCreateModal", "openEditModal"}
    /\ modalOpen => (editingEvent # NoEvent <=> op = "openEditModal")
    /\ (modalOpen /\ op = "openCreateModal") => selectedDate # NoDate

\* the modal is open for an event, without a selected date
ManagerWitness ==
    /\ modalOpen
    /\ op = "openEditModal"
    /\ editingEvent # NoEvent
    /\ editingEvent.startDate = MkDate(WeekSunday + 2, 9 * MsPerHour)
    /\ selectedDate = NoDate
====
